---------------------------- MODULE Spec2Model ----------------------------
(***************************************************************************)
(* A model of discord.ext.interactions: the Interaction follow-up calls    *)
(* (models.py), the webhook Router (fastapi_router.py), and the slash      *)
(* command schema translator, validator, publisher and container           *)
(* (models.py).                                                            *)
(*                                                                         *)
(* The parts share no state, so each has its own specification:           *)
(* SpecInteraction, SpecFollowup, SpecRouter, SpecVerify, SpecCommands     *)
(* and SpecValidate.  Spec is their composition.                           *)
(***************************************************************************)
EXTENDS Integers, Sequences, FiniteSets, TLC

VARIABLES
    \* ---- Interaction (models.py 71-239) ----
    now,                  \* datetime.utcnow(), in whole seconds
    token_start,          \* Interaction.token_start
    token,                \* Interaction.token
    bot_allowed_mentions, \* Interaction.bot.allowed_mentions
    requests,             \* number of HTTP requests the follow-up calls have issued
    op,                   \* the last follow-up call: name, token age, exception, request, return
    built,                \* a call of Interaction.followup: its arguments and its outcome
    \* ---- Router (fastapi_router.py) ----
    BOT,                  \* the module global BOT that route() reads
    handled,              \* the last request route() handled, and what became of it
    dispatched,           \* the events handed to bot.dispatch, in order
    public_key,           \* Router.public_key
    verified,             \* the last direct call of a signature verifier and its outcome
    \* ---- SlashCommandContainer / SlashCommand (models.py 242-371) ----
    _publish,             \* SlashCommandContainer._publish
    accepted,             \* the command objects add_command accepted, in order
    added,                \* the exception the last add_command call raised, "" if none
    cgc,                  \* the running create_global_commands call
    posts,                \* the POSTs create_global_commands has issued, in order
    validated             \* the last direct _validate_schema call and its outcome

varsInteraction == <<now, token_start, token, bot_allowed_mentions, requests, op>>
varsFollowup == <<built>>
varsRouter == <<BOT, public_key, handled, dispatched>>
varsVerify == <<verified>>
varsCommands == <<_publish, accepted, added, cgc, posts>>
varsValidate == <<validated>>
vars == <<varsInteraction, varsFollowup, varsRouter, varsVerify, varsCommands, varsValidate>>

\* What an operation of one part leaves alone.
OnlyInteraction == UNCHANGED <<varsFollowup, varsRouter, varsVerify, varsCommands, varsValidate>>
OnlyFollowup == UNCHANGED <<varsInteraction, varsRouter, varsVerify, varsCommands, varsValidate>>
OnlyRouter == UNCHANGED <<varsInteraction, varsFollowup, varsVerify, varsCommands, varsValidate>>
OnlyVerify == UNCHANGED <<varsInteraction, varsFollowup, varsRouter, varsCommands, varsValidate>>
OnlyCommands == UNCHANGED <<varsInteraction, varsFollowup, varsRouter, varsVerify, varsValidate>>
OnlyValidate == UNCHANGED <<varsInteraction, varsFollowup, varsRouter, varsVerify, varsCommands>>

---------------------------------------------------------------------------
(* Python values.  Every value carries its type, so that None, False, ""   *)
(* and [] stay apart and truthiness is computed the way Python does.  A    *)
(* str whose length matters (PyText) is held as its sequence of            *)
(* characters or path segments.                                            *)

None == [t |-> "None"]
PyStr(s) == [t |-> "str", s |-> s]
PyText(c) == [t |-> "text", c |-> c]
PyBool(b) == [t |-> "bool", b |-> b]
PyInt(i) == [t |-> "int", i |-> i]
PyList(l) == [t |-> "list", l |-> l]
PyDict(d) == [t |-> "dict", d |-> d]

IsNone(x) == x.t = "None"

\* bool(x): None, False, 0, "" and [] are falsy; other objects are truthy.
Truthy(x) ==
    CASE x.t = "None" -> FALSE
      [] x.t = "bool" -> x.b
      [] x.t = "int"  -> x.i # 0
      [] x.t = "str"  -> x.s # ""
      [] x.t = "text" -> Len(x.c) > 0
      [] x.t = "list" -> Len(x.l) > 0
      [] OTHER        -> TRUE

Digits == <<"0", "1", "2", "3", "4", "5", "6", "7", "8", "9">>

\* str(x) for the values a caller passes as content.
str(x) ==
    CASE x.t = "str" -> x.s
      [] x.t = "int" -> Digits[x.i + 1]
      [] x.t = "None" -> "None"
      [] OTHER -> "<object>"

\* The empty mapping {}.
EmptyDict == [k \in {} |-> None]

\* d[k] = v on a mapping.
SetItem(d, k, v) == [x \in (DOMAIN d) \cup {k} |-> IF x = k THEN v ELSE d[x]]

\* d.pop(k): the mapping without k.
DelItem(d, k) == [x \in (DOMAIN d) \ {k} |-> d[x]]

\* d.get(k, default)
GetItem(d, k, default) == IF k \in DOMAIN d THEN d[k] ELSE default


---------------------------------------------------------------------------
(* Collaborators of discord.py that the code calls.                        *)

\* discord.AllowedMentions: each of everyone/users/roles is "yes", "no" or
\* "default" (left unset).
AllowedMentions(e, u, r) == [t |-> "AllowedMentions", everyone |-> e, users |-> u, roles |-> r]

\* AllowedMentions.merge: a field the other policy sets overrides this one's.
merge(self, other) ==
    LET pick(f) == IF other[f] = "default" THEN self[f] ELSE other[f]
    IN AllowedMentions(pick("everyone"), pick("users"), pick("roles"))

\* AllowedMentions.to_dict: {"parse": [...]} listing what may be mentioned;
\* an unset field counts as allowed.
to_dict(am) ==
    LET on(f) == IF am[f] # "no" THEN <<PyStr(f)>> ELSE <<>>
    IN PyDict([parse |-> PyList(on("everyone") \o on("users") \o on("roles"))])

\* discord.Embed and Embed.to_dict
Embed(title) == [t |-> "Embed", title |-> title]
embed_to_dict(e) == PyDict([title |-> PyStr(e.title), type |-> PyStr("rich")])

\* [f(x) for x in seq]
MapSeq(f(_), seq) == [i \in 1..Len(seq) |-> f(seq[i])]

---------------------------------------------------------------------------
(* Interaction                                                             *)

BASE == "https://discord.com/api/v8"

\* str(self.bot.user.id)
bot_user_id == "4242"

\* The token's time to live, in seconds.
TokenTTL == 900

\* json.dumps: None becomes null, booleans and strings keep their value,
\* lists become arrays and mappings objects.
RECURSIVE to_json(_)
to_json(x) ==
    CASE x.t = "None" -> [j |-> "null"]
      [] x.t = "bool" -> [j |-> IF x.b THEN "true" ELSE "false"]
      [] x.t = "int"  -> [j |-> "number", n |-> x.i]
      [] x.t = "str"  -> [j |-> "string", s |-> x.s]
      [] x.t = "text" -> [j |-> "string", c |-> x.c]
      [] x.t = "list" -> [j |-> "array", a |-> [i \in 1..Len(x.l) |-> to_json(x.l[i])]]
      [] x.t = "dict" -> [j |-> "object", o |-> [k \in DOMAIN x.d |-> to_json(x.d[k])]]

\* What a call ends with: an exception raised, or a value returned.
Raise(e) == [exc |-> e, ret |-> None]
Return(v) == [exc |-> "", ret |-> v]

\* Interaction.followup
followup(bot_am, content, tts, embed, embeds, allowed_mentions) ==
    IF Truthy(embed) /\ Truthy(embeds)
    THEN Raise("TypeError")
    ELSE
      LET r0 == EmptyDict
          r1 == IF Truthy(content) THEN SetItem(r0, "content", PyStr(str(content))) ELSE r0
          r2 == IF Truthy(tts) THEN SetItem(r1, "tts", tts) ELSE r1
          embeds1 == IF Truthy(embed) THEN PyList(<<embed>>) ELSE embeds
          r3 == IF Truthy(embeds1)
                THEN SetItem(r2, "embeds", PyList(MapSeq(embed_to_dict, embeds1.l)))
                ELSE r2
          am == IF ~IsNone(allowed_mentions)
                THEN IF ~IsNone(bot_am)
                     THEN to_dict(merge(bot_am, allowed_mentions))
                     ELSE to_dict(allowed_mentions)
                \* self.bot.allowed_mentions and self.bot.allowed_mentions.to_dict()
                ELSE IF Truthy(bot_am) THEN to_dict(bot_am) ELSE bot_am
      IN Return(PyDict(SetItem(r3, "allowed_mentions", am)))

\* (datetime.utcnow() - self.token_start).total_seconds() > 900
TokenExpired(age) == age > TokenTTL

\* BASE + "/webhooks/{}/{}/messages/@original".format(str(self.bot.user.id), self.token)
WebhookURI(tok) == <<BASE, "webhooks", bot_user_id, tok, "messages", "@original">>

\* The inputs of the follow-up calls.
Contents == {None, PyStr(""), PyStr("hi"), PyInt(5)}
TTSs == {PyBool(FALSE), PyBool(TRUE)}
EmbedArgs == {None, Embed("E")}
EmbedsArgs == {None, PyList(<<>>), PyList(<<Embed("E"), Embed("F")>>)}
BotPolicies == {None, AllowedMentions("no", "default", "default")}
ArgPolicies == {None, AllowedMentions("default", "no", "yes")}
Tokens == {"", "tok"}
Statuses == {200, 404}
ClockSteps == {449, 450, 451}
MaxNow == 902
MaxRequests == 2

\* The arguments edit_initial_response is called with:
\* <<content, tts, embed, embeds, allowed_mentions>>.
EditArgs ==
    {<<None, PyBool(FALSE), None, None, None>>,
     <<PyStr("hi"), PyBool(TRUE), None, None, AllowedMentions("default", "no", "yes")>>,
     <<PyStr("hi"), PyBool(FALSE), Embed("E"), None, None>>,
     <<None, PyBool(FALSE), Embed("E"), PyList(<<Embed("E"), Embed("F")>>), None>>}

\* What the platform answers with (response.json()).
ResponseJson(status) == PyDict([status |-> PyInt(status)])

NoRequest == [method |-> "none"]

InitInteraction ==
    /\ now = 0
    /\ token_start = 0
    /\ token \in Tokens
    /\ bot_allowed_mentions \in BotPolicies
    /\ requests = 0
    /\ op = [name |-> "__init__", age |-> 0, exc |-> "", request |-> NoRequest, ret |-> None]

\* Time passes.
Tick(d) ==
    /\ now + d <= MaxNow
    /\ now' = now + d
    /\ UNCHANGED <<token_start, token, bot_allowed_mentions, requests, op>>
    /\ OnlyInteraction

\* The outcome of one follow-up HTTP call whose body (if any) is built by
\* `data`: [exc, request, ret].
FollowupCall(method, data, status) ==
    LET URI == WebhookURI(token)
        age == now - token_start
    IN IF TokenExpired(age)
       THEN [exc |-> "ExpiredToken", request |-> NoRequest, ret |-> None]
       ELSE IF token = ""
       THEN [exc |-> "InteractionsError", request |-> NoRequest, ret |-> None]
       ELSE IF data.exc # ""
       THEN [exc |-> data.exc, request |-> NoRequest, ret |-> None]
       ELSE LET req == IF method = "PATCH"
                       THEN [method |-> method, uri |-> URI, data |-> to_json(data.ret),
                             authorization |-> "Bot"]
                       ELSE [method |-> method, uri |-> URI, authorization |-> "Bot"]
            IN IF status # 200
               THEN [exc |-> "HTTPException", request |-> req, ret |-> None]
               ELSE [exc |-> "", request |-> req, ret |-> ResponseJson(status)]

\* Interaction.edit_initial_response
edit_initial_response(content, tts, embed, embeds, allowed_mentions, status) ==
    LET r == FollowupCall("PATCH",
                 followup(bot_allowed_mentions, content, tts, embed, embeds, allowed_mentions),
                 status)
    IN /\ requests < MaxRequests
       /\ op' = [name |-> "edit_initial_response", age |-> now - token_start,
                 exc |-> r.exc, request |-> r.request, ret |-> r.ret]
       /\ requests' = IF r.request = NoRequest THEN requests ELSE requests + 1
       /\ UNCHANGED <<now, token_start, token, bot_allowed_mentions>>
       /\ OnlyInteraction

\* Interaction.delete_initial_response (no body is sent)
delete_initial_response(status) ==
    LET r == FollowupCall("DELETE", Return(None), status)
    IN /\ requests < MaxRequests
       /\ op' = [name |-> "delete_initial_response", age |-> now - token_start,
                 exc |-> r.exc, request |-> r.request, ret |-> r.ret]
       /\ requests' = IF r.request = NoRequest THEN requests ELSE requests + 1
       /\ UNCHANGED <<now, token_start, token, bot_allowed_mentions>>
       /\ OnlyInteraction

NextInteraction ==
    \/ \E d \in ClockSteps : Tick(d)
    \/ \E a \in EditArgs, s \in Statuses :
          edit_initial_response(a[1], a[2], a[3], a[4], a[5], s)
    \/ \E s \in Statuses : delete_initial_response(s)

---------------------------------------------------------------------------
(* Interaction.followup called on its own                                  *)

FollowupArgs ==
    [content : Contents, tts : TTSs, embed : EmbedArgs, embeds : EmbedsArgs,
     allowed_mentions : ArgPolicies]

\* The arguments are picked; followup has not been called yet.
InitFollowup == built \in {[called |-> FALSE, args |-> a] : a \in FollowupArgs}

Followup ==
    /\ ~built.called
    /\ LET a == built.args
           r == followup(bot_allowed_mentions, a.content, a.tts, a.embed, a.embeds,
                         a.allowed_mentions)
       IN built' = [called |-> TRUE, args |-> a, exc |-> r.exc, ret |-> r.ret]
    /\ OnlyFollowup

NextFollowup == Followup

---------------------------------------------------------------------------
(* Ed25519 (PyNaCl), as the code uses it.  A key pair is named by a        *)
(* string; a signature records the key that made it and the message        *)
(* signed, and verifies under that key over that message only.             *)

\* A hex string of a 32-byte public key, one of the wrong length, and a
\* string that is not hexadecimal.
HexKey(k) == [hex |-> TRUE, bytes |-> 32, key |-> k]
ShortKey(k) == [hex |-> TRUE, bytes |-> 16, key |-> k]
NonHex == [hex |-> FALSE]

\* A hex string of the signature key k makes over message m.
Sign(k, m) == [hex |-> TRUE, by |-> k, msg |-> m]

\* A header that is sent, and one that is not: headers.get(...) is None.
Header(v) == [value |-> v]
Absent == [absent |-> TRUE]
IsAbsent(x) == "absent" \in DOMAIN x

\* bytes.fromhex(x): "" when it returns, else the exception.
fromhex_exc(x) ==
    IF IsAbsent(x) THEN "TypeError"
    ELSE IF ~x.hex THEN "ValueError"
    ELSE ""

\* VerifyKey(bytes.fromhex(key)): "" when the key is built, else the exception.
VerifyKey_exc(key) ==
    IF fromhex_exc(key) # "" THEN fromhex_exc(key)
    ELSE IF key.bytes # 32 THEN "ValueError"
    ELSE ""

\* vk.verify(message, bytes.fromhex(signature)): "" when the signature
\* verifies, else the exception (BadSignatureError for a wrong signature).
verify_exc(key, message, signature) ==
    IF fromhex_exc(signature) # "" THEN fromhex_exc(signature)
    ELSE IF signature.by = key.key /\ signature.msg = message THEN ""
    ELSE "BadSignatureError"

\* Router.verify_key
verify_key(signature, timestamp, body, key) ==
    \* message = timestamp.encode() + body     (outside the try)
    IF IsAbsent(timestamp) THEN Raise("AttributeError")
    ELSE LET message == <<timestamp>> \o <<body>>
         IN \* try: ... return True / except Exception: pass / return False
            IF VerifyKey_exc(key) # "" THEN Return(PyBool(FALSE))
            ELSE IF verify_exc(key, message, signature) # "" THEN Return(PyBool(FALSE))
            ELSE Return(PyBool(TRUE))

\* Interaction.verify_request
verify_request(X_Signature_Ed25519, X_Signature_Timestamp, raw_body, key) ==
    \* key = VerifyKey(bytes.fromhex(public_key))     (outside the try)
    IF VerifyKey_exc(key) # "" THEN Raise(VerifyKey_exc(key))
    \* str(X_Signature_Timestamp + raw_body)
    ELSE IF IsAbsent(X_Signature_Timestamp) THEN Raise("TypeError")
    ELSE LET message == <<X_Signature_Timestamp>> \o <<raw_body>>
             e == verify_exc(key, message, X_Signature_Ed25519)
         IN \* except BadSignatureError: return False / else: return True
            IF e = "BadSignatureError" THEN Return(PyBool(FALSE))
            ELSE IF e # "" THEN Raise(e)
            ELSE Return(PyBool(TRUE))

---------------------------------------------------------------------------
(* Router                                                                  *)

\* Request bodies: a PING, a command invocation, JSON without "type", and
\* bytes that are not JSON.
PingBody == [json |-> TRUE, fields |-> [type |-> 1]]
CommandBody == [json |-> TRUE,
                fields |-> [type |-> 2, id |-> "77", guild_id |-> "5", channel_id |-> "6",
                            member |-> "9", token |-> "tok", version |-> 1]]
NoTypeBody == [json |-> TRUE, fields |-> [id |-> "77"]]
NotJsonBody == [json |-> FALSE]
Bodies == {PingBody, CommandBody, NoTypeBody, NotJsonBody}

Timestamps == {Absent, Header("1600")}
AppKey == "K1"
OtherKey == "K2"
PublicKeys == {HexKey(AppKey), HexKey(OtherKey), ShortKey(AppKey), NonHex}

\* The signatures a request with this timestamp and body may carry.
Signatures(ts, body) ==
    {Absent, NonHex,
     Sign(AppKey, <<ts>> \o <<body>>),      \* the platform's
     Sign(AppKey, <<body>> \o <<ts>>),      \* over the body before the timestamp
     Sign(AppKey, <<ts>> \o <<NotJsonBody>>), \* over another body
     Sign(OtherKey, <<ts>> \o <<body>>)}    \* by another key

\* Router.bot
router_bot == "bot"
Undefined == "<undefined>"
MaxDispatched == 2

\* Interaction.from_request: the Interaction built from a decoded body,
\* with guild, channel and member looked up through `bot`.
from_request(bot, body) ==
    [t |-> "Interaction", bot |-> bot, id |-> body.id, type |-> body.type,
     guild |-> [via |-> bot, guild_id |-> body.guild_id],
     channel |-> [via |-> bot, channel_id |-> body.channel_id],
     member |-> [via |-> bot, member_id |-> body.member],
     token |-> body.token, version |-> body.version, raw |-> body]

\* Calling the coroutine function without awaiting it: a coroutine object,
\* none of whose body has run.
Coroutine(fn, bot, body) == [t |-> "coroutine", fn |-> fn, bot |-> bot, body |-> body]

\* JSONResponse(content, status)
JSONResponse(content, status) == [status |-> status, content |-> content]
NoResponse == [status |-> 0, content |-> EmptyDict]

\* What the route does with the decoded body once the request is verified:
\* [exc, response, dispatch], dispatch being the events handed to the bot.
route_verified(json) ==
    IF "type" \notin DOMAIN json
    THEN [exc |-> "KeyError", response |-> NoResponse, dispatch |-> <<>>]
    ELSE IF json.type = 1
    THEN [exc |-> "", response |-> JSONResponse([type |-> 1], 200), dispatch |-> <<>>]
    \* BOT.dispatch("ext_interaction", Interaction.from_request(BOT, json))
    ELSE IF BOT = Undefined
    THEN [exc |-> "NameError", response |-> NoResponse, dispatch |-> <<>>]
    ELSE [exc |-> "", response |-> JSONResponse(EmptyDict, 202),
          dispatch |-> << [bot |-> BOT, event |-> "ext_interaction",
                           arg |-> Coroutine("Interaction.from_request", BOT, json)] >>]

\* Router.route: [verify, decoded, exc, response, dispatch]
route_outcome(signature, timestamp, body) ==
    LET v == verify_key(signature, timestamp, body, public_key)
    IN IF v.exc # ""
       THEN [verify |-> v, decoded |-> FALSE, exc |-> v.exc, response |-> NoResponse,
             dispatch |-> <<>>]
       ELSE IF ~Truthy(v.ret)
       THEN [verify |-> v, decoded |-> FALSE, exc |-> "",
             response |-> JSONResponse(EmptyDict, 401), dispatch |-> <<>>]
       \* json = loads(body)
       ELSE IF ~body.json
       THEN [verify |-> v, decoded |-> FALSE, exc |-> "JSONDecodeError",
             response |-> NoResponse, dispatch |-> <<>>]
       ELSE LET r == route_verified(body.fields)
            IN [verify |-> v, decoded |-> TRUE, exc |-> r.exc, response |-> r.response,
                dispatch |-> r.dispatch]

NoRequestHandled ==
    [signature |-> Absent, timestamp |-> Absent, body |-> NotJsonBody, n |-> 0,
     verify |-> Return(None), decoded |-> FALSE, exc |-> "", response |-> NoResponse,
     dispatch |-> <<>>]

InitRouter ==
    /\ BOT \in {Undefined, router_bot}
    /\ public_key \in PublicKeys
    /\ handled = NoRequestHandled
    /\ dispatched = <<>>

\* One inbound request, handled by Router.route.
route(signature, timestamp, body) ==
    LET r == route_outcome(signature, timestamp, body)
    IN /\ Len(dispatched) < MaxDispatched
       /\ handled' = [signature |-> signature, timestamp |-> timestamp, body |-> body,
                      n |-> 1, verify |-> r.verify, decoded |-> r.decoded, exc |-> r.exc,
                      response |-> r.response, dispatch |-> r.dispatch]
       /\ dispatched' = dispatched \o r.dispatch
       /\ UNCHANGED <<BOT, public_key>>
       /\ OnlyRouter

NextRouter ==
    \E ts \in Timestamps, body \in Bodies :
        \E sig \in Signatures(ts, body) : route(sig, ts, body)

---------------------------------------------------------------------------
(* The two verifiers called on their own                                   *)

NotVerified == [fn |-> "", exc |-> "", ret |-> None]

InitVerify == verified = NotVerified

\* Router.verify_key(headers, body, key=key)
VerifyKey(signature, timestamp, body, key) ==
    LET r == verify_key(signature, timestamp, body, key)
    IN /\ verified' = [fn |-> "verify_key", signature |-> signature,
                       timestamp |-> timestamp, body |-> body, key |-> key,
                       exc |-> r.exc, ret |-> r.ret]
       /\ OnlyVerify

\* Interaction.verify_request(signature, timestamp, raw_body, public_key)
VerifyRequest(signature, timestamp, body, key) ==
    LET r == verify_request(signature, timestamp, body, key)
    IN /\ verified' = [fn |-> "verify_request", signature |-> signature,
                       timestamp |-> timestamp, body |-> body, key |-> key,
                       exc |-> r.exc, ret |-> r.ret]
       /\ OnlyVerify

NextVerify ==
    \/ \E ts \in Timestamps, body \in {PingBody, CommandBody}, key \in PublicKeys \cup {Absent} :
          \E sig \in Signatures(ts, body) : VerifyKey(sig, ts, body, key)
    \/ \E ts \in Timestamps, body \in {PingBody, CommandBody}, key \in PublicKeys \cup {Absent} :
          \E sig \in Signatures(ts, body) : VerifyRequest(sig, ts, body, key)

---------------------------------------------------------------------------
(* Text.  A string whose length matters is a sequence of characters.       *)

\* A word of n characters c.
Word(n, c) == [i \in 1..n |-> c]

\* ' '.join(words)
RECURSIVE Join(_)
Join(words) ==
    IF Len(words) = 0 THEN <<>>
    ELSE IF Len(words) = 1 THEN words[1]
    ELSE words[1] \o <<" ">> \o Join(Tail(words))

Placeholder == <<" ", "[", ".", ".", ".", "]">>

\* textwrap.shorten(text, width), text given as its words: the text with
\* its whitespace collapsed if that fits in width, else the longest run of
\* leading words that fits together with the placeholder " [...]".
shorten(words, width) ==
    LET full == Join(words)
        fits == {k \in 1..Len(words) :
                    Len(Join(SubSeq(words, 1, k))) + Len(Placeholder) <= width}
        Max(S) == CHOOSE k \in S : \A m \in S : m <= k
    IN IF Len(full) <= width THEN full
       ELSE IF fits = {} THEN Tail(Placeholder)
       ELSE Join(SubSeq(words, 1, Max(fits))) \o Placeholder

---------------------------------------------------------------------------
(* SlashCommand                                                            *)

\* The commands of the bot (discord.ext.commands): two leaf commands, a
\* group holding both, and a group holding that group.
CommandObjects ==
    [ping |-> [cls |-> "Command", name |-> <<"p", "i", "n", "g">>,
               short_doc |-> <<Word(4, "P")>>, clean_params |-> <<>>, children |-> <<>>],
     echo |-> [cls |-> "Command", name |-> <<"e", "c", "h", "o">>,
               short_doc |-> <<Word(40, "x"), Word(40, "y"), Word(40, "z")>>,
               clean_params |-> <<PyStr("text"), PyStr("times")>>, children |-> <<>>],
     grp  |-> [cls |-> "Group", name |-> <<"g", "r", "p">>,
               short_doc |-> <<Word(5, "G")>>, clean_params |-> <<>>,
               children |-> <<"ping", "echo">>],
     top  |-> [cls |-> "Group", name |-> <<"t", "o", "p">>,
               short_doc |-> <<Word(3, "T")>>, clean_params |-> <<>>,
               children |-> <<"grp">>]]

\* isinstance(command, cls): commands.Group derives from commands.Command.
isinstance(command, cls) ==
    \/ CommandObjects[command].cls = cls
    \/ CommandObjects[command].cls = "Group" /\ cls = "Command"

\* GroupMixin.walk_commands: every command below the group, subgroups
\* followed by their own commands.
RECURSIVE walk_commands(_)
walk_commands(command) ==
    LET kids == CommandObjects[command].children
        below(c) == IF CommandObjects[c].cls = "Group" THEN walk_commands(c) ELSE <<>>
        F[i \in 0..Len(kids)] ==
            IF i = 0 THEN <<>> ELSE F[i - 1] \o <<kids[i]>> \o below(kids[i])
    IN F[Len(kids)]

STRING_TYPE == 3

\* The option entry of one parameter (models.py 275-283).
OptionEntry(argument) ==
    PyDict([name |-> PyText(shorten(<<argument.name>>, 32)),
            description |-> PyText(<<"[", "N", "o", " ", "D", "e", "s", "c", "r", "i", "p",
                                    "t", "i", "o", "n", "]">>),
            type |-> PyInt(STRING_TYPE),
            required |-> PyBool(argument.required)])

\* The type field of a schema.
SchemaType(command) == IF isinstance(command, "Command") THEN 1 ELSE 2

\* SlashCommand._resolve_options
RECURSIVE _resolve_options(_)
_resolve_options(command) ==
    LET c == CommandObjects[command]
        _options ==
            IF isinstance(command, "Group")
            THEN LET w == walk_commands(command)
                 IN [i \in 1..Len(w) |-> PyDict(_resolve_options(w[i]))]
            \* iterating clean_params, a mapping, yields the parameters' names:
            \* strings, which the loop skips
            ELSE LET args == c.clean_params
                     kept == SelectSeq(args, LAMBDA a : a.t # "str")
                 IN [i \in 1..Len(kept) |-> OptionEntry(kept[i])]
    IN [name |-> PyText(c.name),
        description |-> PyText(shorten(c.short_doc, 100)),
        type |-> PyInt(SchemaType(command)),
        options |-> PyList(_options)]

MinNameLen == 3
MaxNameLen == 32
MinOptionNameLen == 1
MinDescriptionLen == 1
MaxDescriptionLen == 100
MaxChoices == 10

\* A slip in the upper bound: a name of exactly 32 characters refused.
BadCommandName_OffByOne(name) == Len(name) >= MaxNameLen \/ Len(name) < MinNameLen

\* len(name) > 32 or len(name) < 3
BadCommandName(name) == Len(name) > MaxNameLen \/ Len(name) < MinNameLen

\* The first complaint about an option, "" if there is none.
OptionComplaint(option) ==
    IF Len(option.d.name.c) > MaxNameLen \/ Len(option.d.name.c) < MinOptionNameLen
    THEN "option name"
    ELSE IF Len(option.d.description.c) > MaxDescriptionLen
            \/ Len(option.d.description.c) < MinDescriptionLen
    THEN "option description"
    ELSE IF Len(GetItem(option.d, "choices", PyList(<<>>)).l) > MaxChoices
    THEN "option choices"
    ELSE ""

\* SlashCommand._validate_schema: [exc, field, ret]
_validate_schema(s) ==
    LET bad == {i \in 1..Len(s.options.l) : OptionComplaint(s.options.l[i]) # ""}
        first == CHOOSE i \in bad : \A j \in bad : i <= j
    IN IF BadCommandName(s.name.c)
       THEN [exc |-> "IndexError", field |-> "name", ret |-> None]
       ELSE IF Len(s.description.c) > MaxDescriptionLen
               \/ Len(s.description.c) < MinDescriptionLen
       THEN [exc |-> "IndexError", field |-> "description", ret |-> None]
       ELSE IF bad # {}
       THEN [exc |-> "IndexError", field |-> OptionComplaint(s.options.l[first]), ret |-> None]
       ELSE [exc |-> "", field |-> "", ret |-> PyBool(TRUE)]

\* A hand-written schema (the kwargs of add_command) and its options.
Option(nameLen, descLen, choices) ==
    LET o == [name |-> PyText(Word(nameLen, "n")), description |-> PyText(Word(descLen, "d"))]
    IN PyDict(IF choices < 0 THEN o
              ELSE SetItem(o, "choices", PyList([i \in 1..choices |-> PyInt(i)])))

Schema(nameLen, descLen, options) ==
    [name |-> PyText(Word(nameLen, "c")), description |-> PyText(Word(descLen, "d")),
     options |-> PyList(options)]

---------------------------------------------------------------------------
(* create_global_commands                                                  *)

client_id == "99"

DefaultTemplate == <<"applications", "{client_id}", "commands">>
GuildTemplate == <<"applications", "{client_id}", "guilds", "{guild_id}", "commands">>

\* template.format(client_id=..., guild_id=...)
Format(template, cid, gid) ==
    [i \in 1..Len(template) |->
        IF template[i] = "{client_id}" THEN cid
        ELSE IF template[i] = "{guild_id}" THEN gid
        ELSE template[i]]

\* BASE + "/applications/{}/commands".format(str(client_id))
PostURL(cid) == <<BASE, "applications", cid, "commands">>

\* One pass of the loop body for `command`: the payload as posted, the uri
\* the code computes, and the url it posts to.
PostOf(command) ==
    LET payload == command
        template == GetItem(payload, "uri", PyText(DefaultTemplate)).c
        afterUri == DelItem(payload, "uri")
        gid == GetItem(afterUri, "guild_id", PyStr(""))
        afterGuild == DelItem(afterUri, "guild_id")
        uri == Format(template, client_id, str(gid))
    IN [payload |-> afterGuild, uri |-> uri, url |-> PostURL(client_id)]

Idle == [pc |-> "idle", commands |-> <<>>, i |-> 0, exc |-> ""]

\* create_global_commands(client_id, token, *container._publish) is called.
create_global_commands ==
    /\ cgc.pc # "running"
    /\ cgc' = [pc |-> IF Len(_publish) = 0 THEN "done" ELSE "running",
               commands |-> _publish, i |-> 1, exc |-> ""]
    /\ posts' = <<>>
    /\ UNCHANGED <<_publish, accepted, added>>
    /\ OnlyCommands

\* A slip: the loop goes on after a refused POST instead of raising.
Post_NoAbort(status) ==
    /\ cgc.pc = "running"
    /\ LET p == PostOf(_publish[cgc.i])
       IN /\ posts' = Append(posts, [method |-> "POST", url |-> p.url,
                                     data |-> to_json(PyDict(p.payload)), status |-> status])
          /\ _publish' = [_publish EXCEPT ![cgc.i] = p.payload]
          /\ cgc' = IF cgc.i = Len(cgc.commands)
                    THEN [cgc EXCEPT !.pc = "done"]
                    ELSE [cgc EXCEPT !.i = cgc.i + 1]
    /\ UNCHANGED <<accepted, added>>
    /\ OnlyCommands

\* The POST of the i-th command and the platform's answer.  The payload is
\* the very mapping the container holds, so the keys popped are gone from
\* _publish too.
Post(status) ==
    /\ cgc.pc = "running"
    /\ LET p == PostOf(_publish[cgc.i])
       IN /\ posts' = Append(posts, [method |-> "POST", url |-> p.url,
                                     data |-> to_json(PyDict(p.payload)), status |-> status])
          /\ _publish' = [_publish EXCEPT ![cgc.i] = p.payload]
          /\ cgc' = IF status # 200
                    THEN [cgc EXCEPT !.pc = "raised", !.exc = "HTTPException"]
                    ELSE IF cgc.i = Len(cgc.commands)
                    THEN [cgc EXCEPT !.pc = "done"]
                    ELSE [cgc EXCEPT !.i = cgc.i + 1]
    /\ UNCHANGED <<accepted, added>>
    /\ OnlyCommands

---------------------------------------------------------------------------
(* SlashCommandContainer                                                   *)

\* a == b between Python objects: a command object equals only itself, a
\* mapping only a mapping with the same items.
PyEq(a, b) == a.t = b.t /\ a = b

\* obj in list
Contains(list, obj) == \E i \in 1..Len(list) : PyEq(list[i], obj)

\* obj in self._publish
AlreadyRegistered(obj) == Contains([i \in 1..Len(_publish) |-> PyDict(_publish[i])], obj)

Guild(id) == [t |-> "Guild", id |-> id]

Addable == {"ping", "grp", "top"}
Guilds == {None, Guild(7)}
ManualSchemas == {Schema(3, 1, <<>>), Schema(2, 1, <<>>), Schema(4, 100, <<Option(1, 1, 11)>>)}
MaxPublish == 3

InitCommands ==
    /\ _publish = <<>>
    /\ accepted = <<>>
    /\ added = ""
    /\ cgc = Idle
    /\ posts = <<>>

\* SlashCommandContainer.add_command
add_command(obj, guild, auto_generate_schema, kwargs) ==
    LET v == IF auto_generate_schema THEN [exc |-> "", field |-> "", ret |-> None]
             ELSE _validate_schema(kwargs)
        schema == IF auto_generate_schema THEN _resolve_options(obj) ELSE kwargs
        scoped == IF Truthy(guild)
                  THEN SetItem(SetItem(schema, "guild_id", PyInt(guild.id)),
                               "uri", PyText(GuildTemplate))
                  ELSE schema
    IN /\ Len(_publish) < MaxPublish
       /\ IF AlreadyRegistered([t |-> "Command", name |-> obj])
          THEN /\ added' = "IndexError"
               /\ UNCHANGED <<_publish, accepted>>
          ELSE IF v.exc # ""
          THEN /\ added' = v.exc
               /\ UNCHANGED <<_publish, accepted>>
          ELSE /\ added' = ""
               /\ _publish' = Append(_publish, scoped)
               /\ accepted' = Append(accepted, obj)
       /\ UNCHANGED <<cgc, posts>>
       /\ OnlyCommands

NextCommands ==
    \/ \E obj \in Addable, guild \in Guilds : add_command(obj, guild, TRUE, EmptyDict)
    \/ \E guild \in Guilds, kwargs \in ManualSchemas :
          add_command("ping", guild, FALSE, kwargs)
    \/ create_global_commands
    \/ \E status \in Statuses : Post(status)

---------------------------------------------------------------------------
(* _validate_schema called on its own                                      *)

NameLens == {0, 1, 2, 3, 32, 33}
DescriptionLens == {0, 1, 100, 101}
OptionNameLens == {0, 1, 32, 33}
ChoiceCounts == {-1, 10, 11}
MaxOptions == 1

Options == {Option(n, d, c) : n \in OptionNameLens, d \in DescriptionLens, c \in ChoiceCounts}

OptionLists == UNION {[1..k -> Options] : k \in 0..MaxOptions}

Schemas == {Schema(n, d, os) : n \in NameLens, d \in DescriptionLens, os \in OptionLists}

\* A schema is picked; _validate_schema has not been called on it yet.
InitValidate == validated \in {[called |-> FALSE, s |-> s] : s \in Schemas}

ValidateSchema ==
    /\ ~validated.called
    /\ LET r == _validate_schema(validated.s)
       IN validated' = [called |-> TRUE, s |-> validated.s, exc |-> r.exc,
                        field |-> r.field, ret |-> r.ret]
    /\ OnlyValidate

NextValidate == ValidateSchema

---------------------------------------------------------------------------
(* Specifications                                                          *)

\* The state of a part that is not exercised.
RestInteraction == InitInteraction /\ token = "tok" /\ IsNone(bot_allowed_mentions)
RestFollowup ==
    built = [called |-> FALSE,
             args |-> [content |-> None, tts |-> PyBool(FALSE), embed |-> None,
                       embeds |-> None, allowed_mentions |-> None]]
RestRouter == InitRouter /\ BOT = Undefined /\ public_key = HexKey(AppKey)
RestValidate == validated = [called |-> FALSE, s |-> Schema(3, 1, <<>>)]

InitOfInteraction ==
    InitInteraction /\ RestFollowup /\ RestRouter /\ InitVerify /\ InitCommands /\ RestValidate
InitOfFollowup ==
    InitInteraction /\ InitFollowup /\ RestRouter /\ InitVerify /\ InitCommands /\ RestValidate
InitOfRouter ==
    RestInteraction /\ RestFollowup /\ InitRouter /\ InitVerify /\ InitCommands /\ RestValidate
InitOfVerify ==
    RestInteraction /\ RestFollowup /\ RestRouter /\ InitVerify /\ InitCommands /\ RestValidate
InitOfCommands ==
    RestInteraction /\ RestFollowup /\ RestRouter /\ InitVerify /\ InitCommands /\ RestValidate
InitOfValidate ==
    RestInteraction /\ RestFollowup /\ RestRouter /\ InitVerify /\ InitCommands /\ InitValidate

SpecInteraction == InitOfInteraction /\ [][NextInteraction]_vars
SpecFollowup == InitOfFollowup /\ [][NextFollowup]_vars
SpecRouter == InitOfRouter /\ [][NextRouter]_vars
SpecVerify == InitOfVerify /\ [][NextVerify]_vars
SpecCommands == InitOfCommands /\ [][NextCommands]_vars
SpecValidate == InitOfValidate /\ [][NextValidate]_vars

Init ==
    InitInteraction /\ InitFollowup /\ InitRouter /\ InitVerify /\ InitCommands /\ InitValidate

Next ==
    NextInteraction \/ NextFollowup \/ NextRouter \/ NextVerify \/ NextCommands \/ NextValidate

Spec == Init /\ [][Next]_vars

---------------------------------------------------------------------------
(* The claims                                                              *)

FollowupOps == {"edit_initial_response", "delete_initial_response"}

\* C1: a follow-up call (edit_initial_response, delete_initial_response)
\* made 900 seconds or more after token_start fails with ExpiredToken and
\* issues no request; one made less than 900 seconds after is not rejected
\* as expired.  In particular a call at exactly 900 seconds is rejected.
C1_ExpiredAtFifteenMinutes ==
    op.name \in FollowupOps =>
        /\ op.age >= 15 * 60 => op.exc = "ExpiredToken" /\ op.request = NoRequest
        /\ op.age < 15 * 60 => op.exc # "ExpiredToken"

\* The request passed verification: verify_key returned True.
PassedVerification(h) == h.verify.exc = "" /\ Truthy(h.verify.ret)

\* C2: a request whose signature verification fails is answered 401 with
\* an empty body, its body is not decoded and no event is dispatched; an
\* event is dispatched only for a verified request that is not a PING; a
\* verified PING is answered 200 with {"type": 1}.
C2_UnverifiedRejectedWith401 ==
    handled.n = 1 =>
        /\ ~PassedVerification(handled) =>
              /\ handled.response = JSONResponse(EmptyDict, 401)
              /\ ~handled.decoded
              /\ handled.dispatch = <<>>
        /\ handled.dispatch # <<>> =>
              /\ PassedVerification(handled)
              /\ handled.body.json
              /\ "type" \in DOMAIN handled.body.fields
              /\ handled.body.fields.type # 1
        /\ PassedVerification(handled) /\ handled.body = PingBody =>
              handled.response = JSONResponse([type |-> 1], 200)

\* A verified request that carries a type other than PING.
VerifiedCommand(h) ==
    /\ h.n = 1
    /\ PassedVerification(h)
    /\ h.body.json
    /\ "type" \in DOMAIN h.body.fields
    /\ h.body.fields.type # 1

\* C3: for a verified request that is not a PING the route builds an
\* Interaction from the body with the Router's own bot, hands it to that
\* bot's dispatch exactly once as ext_interaction, and answers 202 with an
\* empty body.
C3_InteractionDispatchedThen202 ==
    VerifiedCommand(handled) =>
        /\ handled.dispatch =
              << [bot |-> router_bot, event |-> "ext_interaction",
                  arg |-> from_request(router_bot, handled.body.fields)] >>
        /\ handled.response = JSONResponse(EmptyDict, 202)

\* The signature is the key's own over the timestamp followed by the body.
Genuine(v) ==
    /\ ~IsAbsent(v.key) /\ v.key.hex /\ v.key.bytes = 32
    /\ ~IsAbsent(v.timestamp)
    /\ ~IsAbsent(v.signature) /\ v.signature.hex
    /\ v.signature.by = v.key.key
    /\ v.signature.msg = <<v.timestamp, v.body>>

\* C4: verify_key and verify_request never raise: on every input they
\* return False, and True only when the signature verifies over the
\* timestamp followed by the body.
C4_VerifiersNeverRaise ==
    verified.fn # "" =>
        /\ verified.exc = ""
        /\ verified.ret = PyBool(Genuine(verified))

\* A schema as it is posted: without the uri and guild_id keys.
Stripped(c) == [k \in (DOMAIN c) \ {"uri", "guild_id"} |-> c[k]]

\* C5: create_global_commands posts the schemas one at a time in list
\* order; if the k-th POST is the first answered with a non-200 status it
\* raises after exactly k POSTs and attempts none of the later schemas
\* (nothing is rolled back: only POSTs are sent); if all are answered 200,
\* exactly n POSTs are sent.
C5_SequentialAbortOnFirstFailure ==
    LET n == Len(cgc.commands)
        k == Len(posts)
    IN /\ k <= n
       /\ \A i \in 1..k :
             /\ posts[i].method = "POST"
             /\ posts[i].data = to_json(PyDict(Stripped(cgc.commands[i])))
       /\ \A i \in 1..(k - 1) : posts[i].status = 200
       /\ cgc.pc = "running" => k = cgc.i - 1 /\ k < n
       /\ cgc.pc = "raised" => k >= 1 /\ posts[k].status # 200 /\ cgc.exc = "HTTPException"
       /\ cgc.pc = "done" => k = n /\ \A i \in 1..k : posts[i].status = 200

\* Three schemas, the second refused: two POSTs and the call has raised.
C5_Witness ==
    /\ cgc.pc = "raised"
    /\ Len(cgc.commands) = 3
    /\ Len(posts) = 2
    /\ posts[1].status = 200

\* C6: a guild-scoped schema (guild uri template and guild_id, as
\* add_command sets them) is posted to
\* /applications/{client_id}/guilds/{guild_id}/commands with its guild's
\* id; any other schema to /applications/{client_id}/commands.
C6_GuildScopedPostedToGuildEndpoint ==
    \A i \in 1..Len(posts) :
        LET c == cgc.commands[i]
        IN IF "uri" \in DOMAIN c /\ "guild_id" \in DOMAIN c
           THEN posts[i].url =
                   <<BASE, "applications", client_id, "guilds", str(c.guild_id), "commands">>
           ELSE posts[i].url = <<BASE, "applications", client_id, "commands">>

\* The i-th schema of the publish list was generated by _resolve_options.
Generated(i) == "type" \in DOMAIN _publish[i]

\* C7: the schema of a group of two leaf commands has exactly two options,
\* each of type 1 (command), and its own type is 2 (group); the schema of
\* a leaf command has type 1.
C7_GroupOfTwoLeaves ==
    \A i \in 1..Len(_publish) :
        Generated(i) =>
            /\ accepted[i] = "grp" =>
                  /\ Len(_publish[i].options.l) = 2
                  /\ \A j \in 1..Len(_publish[i].options.l) :
                        _publish[i].options.l[j].d.type = PyInt(1)
                  /\ _publish[i].type = PyInt(2)
            /\ accepted[i] = "ping" => _publish[i].type = PyInt(1)

\* Every option of schema s is within bounds: name 1 to 32 characters,
\* description 1 to 100, at most 10 choices.
OptionsInBounds(s) ==
    \A i \in 1..Len(s.options.l) :
        LET o == s.options.l[i].d
        IN /\ Len(o.name.c) \in 1..32
           /\ Len(o.description.c) \in 1..100
           /\ ("choices" \in DOMAIN o => Len(o.choices.l) <= 10)

\* _validate_schema returns True exactly when the command name has
\* `least` to 32 characters, the description 1 to 100 and the options are
\* within bounds, and raises IndexError otherwise.
ValidateEnforces(least) ==
    validated.called =>
        LET s == validated.s
            ok == /\ Len(s.name.c) \in least..32
                  /\ Len(s.description.c) \in 1..100
                  /\ OptionsInBounds(s)
        IN IF ok
           THEN validated.exc = "" /\ validated.ret = PyBool(TRUE)
           ELSE validated.exc = "IndexError"

\* C8, as claimed: _validate_schema returns True exactly when the command
\* name has 1 to 32 characters, the description 1 to 100 characters and
\* every option a name of 1 to 32, a description of 1 to 100 and at most
\* 10 choices; otherwise it raises IndexError.
C8_CommandNameFrom1 == ValidateEnforces(1)

\* C8, amended: the same with a command name of 3 to 32 characters.
C8_CommandNameFrom3 == ValidateEnforces(3)

\* A schema whose option has exactly 10 choices was accepted, its name
\* being at the lower bound.
C8_Witness ==
    /\ validated.called
    /\ validated.exc = ""
    /\ Len(validated.s.name.c) = 3
    /\ Len(validated.s.options.l) = 1
    /\ "choices" \in DOMAIN validated.s.options.l[1].d
    /\ Len(validated.s.options.l[1].d.choices.l) = 10

\* C9: the mapping followup returns holds no None and no False: content,
\* tts and embeds are absent when not supplied, and allowed_mentions is
\* absent when neither an argument nor a bot default is given.
C9_NoNullPlaceholders ==
    built.called /\ built.exc = "" =>
        LET d == built.ret.d
        IN /\ \A k \in DOMAIN d : ~IsNone(d[k]) /\ d[k] # PyBool(FALSE)
           /\ ~Truthy(built.args.content) => "content" \notin DOMAIN d
           /\ ~Truthy(built.args.tts) => "tts" \notin DOMAIN d
           /\ ~Truthy(built.args.embed) /\ ~Truthy(built.args.embeds) =>
                 "embeds" \notin DOMAIN d
           /\ IsNone(built.args.allowed_mentions) /\ IsNone(bot_allowed_mentions) =>
                 "allowed_mentions" \notin DOMAIN d

\* C10: no command object is accepted twice by add_command: a second
\* add_command of the same object raises IndexError and leaves the publish
\* list as it was, so the list holds at most one schema per command.
C10_NoCommandAcceptedTwice ==
    /\ Len(accepted) = Len(_publish)
    /\ \A i, j \in 1..Len(accepted) : accepted[i] = accepted[j] => i = j

=============================================================================
